---------------------------- MODULE Spec2Model ----------------------------
(***************************************************************************)
(* A model of the sailing-game WebSocket hub (src/server.py).              *)
(*                                                                         *)
(* The program is one asyncio event loop: one handler coroutine per        *)
(* connection (handler/register/unregister), the send tasks each broadcast *)
(* creates and gathers, and the background loops (update_ai_boats,         *)
(* spawn_boats_over_time).  A coroutine runs without interruption between  *)
(* two awaits, so every action below is the code between two suspension    *)
(* points of one coroutine.                                                *)
(*                                                                         *)
(* Three specifications share the variables and the actions:               *)
(*   Spec     the connection handlers and the broadcast fan-out            *)
(*   SpecRec  one recording session long enough to cross the save          *)
(*            threshold                                                    *)
(*   SpecAI   the simulation tick loop and the spawn scheduler             *)
(***************************************************************************)
EXTENDS Integers, Sequences, FiniteSets, TLC

(***************************************************************************)
(* Bounds of the model and constants of the program.                       *)
(***************************************************************************)
\* Handler broadcasts after which the handlers of Spec take no further message.
MaxBcasts == 1
\* len(recording) > 30 in unregister.
RecordingThreshold == 30
\* Handler broadcasts after which the handlers of SpecJoin take no further
\* message.
MaxUpdates == 2
\* Samples one session of SpecRec may buffer.
MaxSamples == 32
\* Seconds the clock of SpecRec may advance.
MaxClock == 1
\* Scheduler periods of SpecAI that select a recording.
MaxPeriods == 4
\* target_boats in spawn_boats_over_time.
TargetBoats == 3
\* Initial boats create_ai_boats makes at most.
InitialBoats == 2
\* Positions are counted in units of 0.5: the snap threshold (distance < 0.5
\* or speed * 0.1 >= distance) and the length of one interpolation step
\* (speed * 0.1 with speed 5) are both one unit.
SnapDistance == 1
StepLength == 1
\* AI boat ids ("pirate_<uuid>") are kept apart from client ids.
PirateBase == 100

\* The connections (websocket objects) of a behaviour; id(websocket) is the
\* client id, so each is used for one connection.
Clients == {1, 2, 3}

\* The clients of Spec that send messages; the third only listens.
Senders == {1, 2}

\* The background tasks main starts (lines 644-645), named as owners of the
\* broadcasts they await.
UpdateTask == 201
SpawnTask == 202

\* The coroutines that can await a broadcast: the handlers and the two
\* background loops.
Owners == Clients \cup {UpdateTask, SpawnTask}

VARIABLES
    record_sessions,        \* args.record, fixed at start
    files,                  \* the JSON files of the recordings directory
    started,                \* main has created the initial boats and serves
    mainRaised,             \* main ended with an exception, before serving
    clock,                  \* time.time()
    initial_boats,          \* per connection: the initial_boats message the last step sent it
    connected_clients,      \* the registry: client id -> entry
    transport,              \* per connection: "none", "open", "closed"
    pc,                     \* per connection: where its handler is
    tasks,                  \* the send tasks created and not yet run
    gatherErr,              \* per owner: a child of its awaited gather failed
    nbcast,                 \* handler broadcasts so far (numbers their messages)
    recorded_paths,         \* the available recordings
    current_recording_index,\* the round-robin cursor
    ai_boats,               \* the active AI set: boat id -> entity
    nboats,                 \* AI boats created so far (their ids)
    tickPc,                 \* update_ai_boats: "sleep" or "gather"
    tickQueue,              \* update_ai_boats: the snapshot's boats still to do
    spawnPc,                \* spawn_boats_over_time: "sleep" or "gather"
    periods,                \* history: scheduler periods that selected a recording
    spawned,                \* history: boats the scheduler created
    retired                 \* history: the boats the tick loop removed

envVars == <<record_sessions, files, started, mainRaised, clock>>
hubVars == <<connected_clients, transport, pc>>
fanVars == <<tasks, gatherErr, nbcast>>
schedVars == <<current_recording_index, nboats, spawnPc, periods, spawned>>
tickVars == <<tickPc, tickQueue, retired>>
aiVars == <<recorded_paths, ai_boats, schedVars, tickVars>>
vars == <<envVars, initial_boats, hubVars, fanVars, aiVars>>

(***************************************************************************)
(* Data.  boat_data is whatever JSON value the client put under            *)
(* "boat_data"; the code only distinguishes the shapes below.              *)
(*   "none"         None / key absent                                      *)
(*   "pose"         an object with "position" {x,y,z} and "rotation"       *)
(*   "no_position"  a non-empty object without "position"                  *)
(*   "scalar"       a truthy JSON value that is not an object (5)          *)
(* flag "" stands for no flag.                                             *)
(***************************************************************************)
NoData == [shape |-> "none", position |-> 0, rotation |-> 0, flag |-> ""]

Pose(p) == [shape |-> "pose", position |-> p, rotation |-> p, flag |-> ""]

NoPosition == [shape |-> "no_position", position |-> 0, rotation |-> 0, flag |-> ""]

Scalar == [shape |-> "scalar", position |-> 0, rotation |-> 0, flag |-> ""]

\* Python truthiness of a stored boat_data (if data["boat_data"]:).
Truthy(bd) == bd.shape # "none"

NoEntry ==
    [present |-> FALSE, boat_data |-> NoData, flag |-> "",
     recording |-> <<>>, recording_start_time |-> 0]

\* register, lines 64-70.
NewEntry ==
    [present |-> TRUE, boat_data |-> NoData, flag |-> "",
     recording |-> <<>>,
     recording_start_time |-> IF record_sessions THEN clock ELSE 0]

Registered(cc) == {c \in Clients : cc[c].present}

\* The messages a client may send (after json.loads):
\*   bad_json      not JSON                      -> JSONDecodeError
\*   non_object    JSON, but not an object       -> data["type"] TypeError
\*   no_type       an object without "type"      -> KeyError
\*   unknown_type  an object with another type
\*   boat_update   boat_data of some shape ("none": key absent)
\*   flag_update   flag_code ("": key absent, data.get's default)
InMsg(kind, bd, code) == [kind |-> kind, boat_data |-> bd, flag_code |-> code]

PlainMessages ==
    {InMsg(k, NoData, "") : k \in {"bad_json", "non_object", "no_type", "unknown_type"}}

BoatUpdates(poses) ==
    {InMsg("boat_update", bd, "") : bd \in poses \cup {NoData, NoPosition, Scalar}}

FlagUpdates == {InMsg("flag_update", NoData, code) : code \in {"", "fr"}}

\* The well-formed boat_data a client of Spec reports.
HubPoses == {Pose(1)}

HubMessages == PlainMessages \cup BoatUpdates(HubPoses)

\* Hub-to-client messages.  serial numbers the broadcast it belongs to.
OutMsg(type, id, bd, serial) ==
    [type |-> type, client_id |-> id, boat_data |-> bd, serial |-> serial]

(***************************************************************************)
(* update_player_position_list: raises TypeError on an entry whose         *)
(* boat_data is truthy and not a container ("position" in 5).              *)
(***************************************************************************)
PositionListRaises(cc) ==
    \E d \in Registered(cc) : cc[d].boat_data.shape = "scalar"

(***************************************************************************)
(* broadcast_to_others / broadcast_to_all: the recipients of one           *)
(* broadcast, chosen in one uninterrupted loop over the registry.          *)
(***************************************************************************)
\* A broadcast_to_others that forgets the test of line 230.
BroadcastToOthersTargets_NoSkip(cc, sender_id) == Registered(cc)

BroadcastToOthersTargets(cc, sender_id) == Registered(cc) \ {sender_id}

\* An iteration that stops after the first entry of the registry.
BroadcastToAllTargets_CutShort(cc) ==
    {c \in Registered(cc) : \A d \in Registered(cc) : c <= d}

BroadcastToAllTargets(cc) == Registered(cc)

\* One task per recipient (asyncio.create_task(websocket.send(message))).
\* awaited: the owner's gather still waits for the task.
CreateTasks(owner, msg, targets) ==
    {[to |-> t, msg |-> msg, owner |-> owner, awaited |-> TRUE] : t \in targets}

(***************************************************************************)
(* The handler's processing of one inbound message, lines 538-610, up to   *)
(* its broadcast.  out is "drop" (logged or ignored, loop continues),      *)
(* "fatal" (an exception neither inner except clause catches) or           *)
(* "broadcast" (broadcast_to_others is called with payload bd).            *)
(***************************************************************************)
Sample(e, bd) ==
    [timestamp |-> clock - e.recording_start_time,
     position |-> bd.position, rotation |-> bd.rotation]

Result(cc, out, bd) == [cc |-> cc, out |-> out, bd |-> bd]

ProcessBoatUpdate(cc, c, m) ==
    LET bd == m.boat_data
        stored == [cc EXCEPT ![c].boat_data = bd]
        recorded == [stored EXCEPT ![c].recording = Append(@, Sample(cc[c], bd))]
    IN  IF bd.shape = "none" THEN Result(cc, "drop", NoData)
        ELSE IF record_sessions /\ bd.shape = "scalar"
             THEN Result(stored, "fatal", NoData)
        ELSE IF record_sessions /\ bd.shape = "no_position"
             THEN Result(stored, "drop", NoData)
        ELSE LET cc2 == IF record_sessions THEN recorded ELSE stored
             IN  IF PositionListRaises(cc2) THEN Result(cc2, "fatal", NoData)
                 ELSE Result(cc2, "broadcast", bd)

ProcessFlagUpdate(cc, c, m) ==
    LET flagged == [cc EXCEPT ![c].flag = m.flag_code]
        merged == [flagged EXCEPT ![c].boat_data.flag = m.flag_code]
    IN  IF cc[c].boat_data.shape = "scalar" THEN Result(flagged, "fatal", NoData)
        ELSE IF Truthy(cc[c].boat_data)
        THEN Result(merged, "broadcast", merged[c].boat_data)
        ELSE Result(flagged, "drop", NoData)

ProcessMessage(cc, c, m) ==
    CASE m.kind = "bad_json" -> Result(cc, "drop", NoData)
      [] m.kind = "non_object" -> Result(cc, "fatal", NoData)
      [] m.kind = "no_type" -> Result(cc, "drop", NoData)
      [] m.kind = "unknown_type" -> Result(cc, "drop", NoData)
      [] m.kind = "boat_update" -> ProcessBoatUpdate(cc, c, m)
      [] m.kind = "flag_update" -> ProcessFlagUpdate(cc, c, m)

(***************************************************************************)
(* save_recording, lines 128-153: the write may raise (logged); only a     *)
(* successful write appends to recorded_paths.                             *)
(***************************************************************************)
RecordingData(client_id, recording) ==
    [client_id |-> client_id, movements |-> recording]

SaveRecording(fs, rp, client_id, recording, writeOk) ==
    IF writeOk
    THEN [files |-> Append(fs, RecordingData(client_id, recording)),
          paths |-> Append(rp, RecordingData(client_id, recording))]
    ELSE [files |-> fs, paths |-> rp]

(***************************************************************************)
(* unregister up to its broadcast, lines 94-118.  raised: the log of the   *)
(* last position (line 110) or update_player_position_list (line 118)      *)
(* raised, and unregister ends there.                                      *)
(***************************************************************************)
UnregisterEntry(cc, c) == [cc EXCEPT ![c] = NoEntry]

\* The threshold read as "at least 30".
SufficientData_AtLeast(recording) == Len(recording) >= RecordingThreshold

SufficientData(recording) == Len(recording) > RecordingThreshold

UnregisterSync(cc, fs, rp, c, writeOk) ==
    LET e == cc[c]
        saves == record_sessions /\ Len(e.recording) > 0
                 /\ SufficientData(e.recording)
        store == IF saves THEN SaveRecording(fs, rp, c, e.recording, writeOk)
                 ELSE [files |-> fs, paths |-> rp]
        logRaises == e.boat_data.shape \in {"no_position", "scalar"}
        cc1 == IF logRaises THEN cc ELSE UnregisterEntry(cc, c)
    IN  [cc |-> cc1, files |-> store.files, paths |-> store.paths,
         raised |-> logRaises \/ PositionListRaises(cc1)]

(***************************************************************************)
(* The state after construction: module level, lines 25-59.                *)
(***************************************************************************)
InitProgram ==
    /\ started = FALSE
    /\ mainRaised = FALSE
    /\ clock = 0
    /\ initial_boats = [c \in Clients |-> <<>>]
    /\ connected_clients = [c \in Clients |-> NoEntry]
    /\ transport = [c \in Clients |-> "none"]
    /\ pc = [c \in Clients |-> "idle"]
    /\ tasks = {}
    /\ gatherErr = [o \in Owners |-> FALSE]
    /\ nbcast = 0
    /\ recorded_paths = <<>>
    /\ current_recording_index = 0
    /\ ai_boats = <<>>
    /\ nboats = 0
    /\ tickPc = "sleep"
    /\ tickQueue = <<>>
    /\ spawnPc = "sleep"
    /\ periods = 0
    /\ spawned = 0
    /\ retired = {}

Init ==
    /\ record_sessions \in BOOLEAN
    /\ files = <<>>
    /\ InitProgram

\* A step that sends no initial_boats message.
NoInitialSent == initial_boats' = [c \in Clients |-> <<>>]

(***************************************************************************)
(* The environment: a peer connects (the server starts handler for the     *)
(* new websocket), and a connection closes, gracefully or abruptly.        *)
(* Connections are numbered in the order they arrive.                      *)
(***************************************************************************)
Connect(c) ==
    /\ started
    /\ transport[c] = "none"
    /\ \A d \in Clients : d < c => transport[d] # "none"
    /\ transport' = [transport EXCEPT ![c] = "open"]
    /\ pc' = [pc EXCEPT ![c] = "register"]
    /\ NoInitialSent
    /\ UNCHANGED <<envVars, connected_clients, fanVars, aiVars>>

ConnClose(c) ==
    /\ transport[c] = "open"
    /\ transport' = [transport EXCEPT ![c] = "closed"]
    /\ NoInitialSent
    /\ UNCHANGED <<envVars, connected_clients, pc, fanVars, aiVars>>

(***************************************************************************)
(* An AI boat's boat_data as a message carries it.  After a snap (line     *)
(* 440) the boat's position is the very dict of the recording sample it    *)
(* snapped to (aliased), and is read through the recording.                *)
(***************************************************************************)
Movements(paths, e) == paths[e.recording].movements

\* The sample dict an aliased boat shares: movements[current_index].
BoatPosition(paths, e) ==
    IF e.aliased THEN Movements(paths, e)[e.current_index + 1].position
    ELSE e.position

\* A message that carries the pose the boat was created with.
BoatData_Origin(paths, e) ==
    [shape |-> "pose", position |-> Movements(paths, e)[1].position,
     rotation |-> Movements(paths, e)[1].rotation, flag |-> "pirate"]

\* The boat_data a broadcast of the boat carries (json.dumps at line 505).
BoatData(paths, e) ==
    [shape |-> "pose", position |-> BoatPosition(paths, e),
     rotation |-> e.rotation, flag |-> "pirate"]

(***************************************************************************)
(* register, lines 61-92, run by handler line 532.  It is outside the      *)
(* handler's try: when the copy of another client's boat_data or the send  *)
(* of initial_boats raises, the handler ends and unregister is not run.    *)
(***************************************************************************)
RegisterEntry(cc, c) == [cc EXCEPT ![c] = NewEntry]

\* A register that lists every other entry, with or without boat_data.
OtherBoats_All(cc, c) == Registered(cc) \ {c}

OtherBoats(cc, c) ==
    {d \in Registered(cc) \ {c} : Truthy(cc[d].boat_data)}

\* A register that lists the stored boat_data as it is (no lines 79-80).
InitialBoatsMessage_Stored(cc, c) ==
    [id \in OtherBoats(cc, c) \cup DOMAIN ai_boats |->
        IF id \in DOMAIN ai_boats THEN BoatData(recorded_paths, ai_boats[id])
        ELSE cc[id].boat_data]

\* lines 74-91: the boats mapping of the initial_boats message.  A client's
\* boat_data is copied and given the client's flag when that is set.
InitialBoatsMessage(cc, c) ==
    [id \in OtherBoats(cc, c) \cup DOMAIN ai_boats |->
        IF id \in DOMAIN ai_boats THEN BoatData(recorded_paths, ai_boats[id])
        ELSE IF cc[id].flag # "" THEN [cc[id].boat_data EXCEPT !.flag = cc[id].flag]
        ELSE cc[id].boat_data]

Register(c) ==
    LET cc == RegisterEntry(connected_clients, c)
        others == OtherBoats(cc, c)
        copyRaises == \E d \in others : cc[d].boat_data.shape = "scalar"
        sendRaises == (others # {} \/ DOMAIN ai_boats # {})
                      /\ transport[c] # "open"
        raises == copyRaises \/ sendRaises
    IN  /\ pc[c] = "register"
        /\ connected_clients' = cc
        /\ pc' = [pc EXCEPT ![c] = IF raises THEN "ended" ELSE "recv"]
        /\ transport' = IF raises THEN [transport EXCEPT ![c] = "closed"]
                        ELSE transport
        /\ initial_boats' = [d \in Clients |->
                                IF d = c /\ ~raises THEN InitialBoatsMessage(cc, c)
                                ELSE <<>>]
        /\ UNCHANGED <<envVars, fanVars, aiVars>>

(***************************************************************************)
(* The handler's finally clause, line 617: unregister up to its await of   *)
(* broadcast_to_others (line 126), from registry cc and pending tasks tk.  *)
(***************************************************************************)
\* A handler that goes back to its dispatch loop after unregister.
AfterUnregister_Resumes(ends) == "recv"

\* Where the handler is once unregister has created its broadcast: awaiting
\* it (line 126), or ended when there was nothing to await.
AfterUnregister(ends) == IF ends THEN "ended" ELSE "gather_unreg"

Finally(c, cc, tk, writeOk) ==
    LET u == UnregisterSync(cc, files, recorded_paths, c, writeOk)
        msg == OutMsg("boat_disconnected", c, NoData, nbcast + 1)
        targets == BroadcastToOthersTargets(u.cc, c)
        ends == u.raised \/ targets = {}
    IN  /\ connected_clients' = u.cc
        /\ files' = u.files
        /\ recorded_paths' = u.paths
        /\ pc' = [pc EXCEPT ![c] = AfterUnregister(ends)]
        /\ transport' = IF ends THEN [transport EXCEPT ![c] = "closed"]
                        ELSE transport
        /\ tasks' = IF u.raised THEN tk ELSE tk \cup CreateTasks(c, msg, targets)
        /\ nbcast' = IF u.raised THEN nbcast ELSE nbcast + 1

(***************************************************************************)
(* One iteration of the dispatch loop, lines 537-610: the handler takes    *)
(* the next inbound message (messages queued before a close are still      *)
(* delivered) and processes it up to the await of its broadcast.           *)
(***************************************************************************)
Receive(c, m, writeOk) ==
    LET r == ProcessMessage(connected_clients, c, m)
        msg == OutMsg("boat_update", c, r.bd, nbcast + 1)
        targets == BroadcastToOthersTargets(r.cc, c)
    IN  /\ pc[c] = "recv"
        /\ IF r.out = "fatal"
           THEN Finally(c, r.cc, tasks, writeOk)
           ELSE /\ connected_clients' = r.cc
                /\ tasks' = IF r.out = "broadcast"
                            THEN tasks \cup CreateTasks(c, msg, targets)
                            ELSE tasks
                /\ nbcast' = IF r.out = "broadcast" THEN nbcast + 1 ELSE nbcast
                /\ pc' = [pc EXCEPT ![c] =
                            IF r.out = "broadcast" /\ targets # {}
                            THEN "gather_msg" ELSE "recv"]
                /\ UNCHANGED <<files, recorded_paths, transport>>
        /\ NoInitialSent
        /\ UNCHANGED <<record_sessions, started, mainRaised, clock, gatherErr, ai_boats,
                       schedVars, tickVars>>

(***************************************************************************)
(* The async for ends (line 537) because the connection is closed:         *)
(* ConnectionClosedOK ends the iteration, ConnectionClosedError is caught  *)
(* at line 612; both reach finally.                                        *)
(***************************************************************************)
HandlerSeesClose(c, writeOk) ==
    /\ pc[c] = "recv"
    /\ transport[c] = "closed"
    /\ Finally(c, connected_clients, tasks, writeOk)
    /\ NoInitialSent
    /\ UNCHANGED <<record_sessions, started, mainRaised, clock, gatherErr, ai_boats,
                   schedVars, tickVars>>

(***************************************************************************)
(* A send task runs: websocket.send(message) succeeds on an open           *)
(* connection and raises ConnectionClosed on a closed one.  A failure      *)
(* completes the owner's gather with that exception; the other tasks of    *)
(* the gather are not cancelled.                                           *)
(***************************************************************************)
\* A gather that cancels the other sends of a broadcast when one fails.
TasksAfterSend_Cancel(tk, t, ok) ==
    IF ok THEN tk \ {t} ELSE {u \in tk : u.msg # t.msg \/ u.owner # t.owner}

TasksAfterSend(tk, t, ok) == tk \ {t}

SendRun(t) ==
    LET ok == transport[t.to] = "open"
    IN  /\ t \in tasks
        /\ tasks' = TasksAfterSend(tasks, t, ok)
        /\ gatherErr' = IF ~ok /\ t.awaited
                        THEN [gatherErr EXCEPT ![t.owner] = TRUE]
                        ELSE gatherErr
        /\ NoInitialSent
        /\ UNCHANGED <<envVars, hubVars, nbcast, aiVars>>

(***************************************************************************)
(* The await of asyncio.gather returns to the handler, lines 224/235:      *)
(* normally once every task is done, or with the first exception, which    *)
(* leaves the tasks still pending to run unawaited.  From the dispatch     *)
(* loop the exception (ConnectionClosed) is caught at line 612 and the     *)
(* handler goes to finally; from unregister it ends the handler.           *)
(***************************************************************************)
Children(tk, o) == {t \in tk : t.owner = o /\ t.awaited}

\* A broadcast that returns without awaiting its sends.
GatherDone_Eager(tk, err, o) == TRUE

GatherDone(tk, err, o) == err[o] \/ Children(tk, o) = {}

Orphaned(tk, o) ==
    {IF t.owner = o THEN [t EXCEPT !.awaited = FALSE] ELSE t : t \in tk}

GatherReturns(c, writeOk) ==
    /\ pc[c] \in {"gather_msg", "gather_unreg"}
    /\ GatherDone(tasks, gatherErr, c)
    /\ gatherErr' = [gatherErr EXCEPT ![c] = FALSE]
    /\ IF pc[c] = "gather_msg" /\ gatherErr[c]
       THEN Finally(c, connected_clients, Orphaned(tasks, c), writeOk)
       ELSE /\ pc' = [pc EXCEPT ![c] = IF pc[c] = "gather_msg" THEN "recv"
                                       ELSE "ended"]
            /\ transport' = IF pc[c] = "gather_msg" THEN transport
                            ELSE [transport EXCEPT ![c] = "closed"]
            /\ tasks' = Orphaned(tasks, c)
            /\ UNCHANGED <<connected_clients, files, recorded_paths, nbcast>>
    /\ NoInitialSent
    /\ UNCHANGED <<record_sessions, started, mainRaised, clock, ai_boats,
                   schedVars, tickVars>>

(***************************************************************************)
(* Recordings and AI boats.  A recording's samples are dicts on the heap:  *)
(* recorded_paths[r].movements[k].position is the sample's position dict.  *)
(* A boat's boat_data["position"] is its own dict after creation (lines    *)
(* 304-308 copy x, y, z) and, after a snap (line 440), the very dict of    *)
(* the sample it snapped to: aliased says which, and an aliased boat's     *)
(* position is read from, and written to, the sample.                      *)
(* Positions lie on one axis, in units of 0.5.                             *)
(***************************************************************************)
Rec(ps) ==
    [client_id |-> 0,
     movements |-> [k \in 1..Len(ps) |->
                       [timestamp |-> k - 1, position |-> ps[k], rotation |-> k]]]

\* The recordings directory at startup, as os.listdir orders it.
StoreChoices ==
    { <<>>,
      <<Rec(<<0, 3>>)>>,
      <<Rec(<<0, 3>>), Rec(<<1>>), Rec(<<0, 1, 4>>)>>,
      <<Rec(<<2, 0, 0>>), Rec(<<>>), Rec(<<1, 3>>)>> }

BoatId(n) == PirateBase + n

\* create_recorded_boat, lines 287-328; period and ordinal are history: the
\* selecting period that created the boat and its rank among the boats the
\* scheduler created (0 for the initial boats).
NewRecordedBoat(paths, r, period, ordinal) ==
    LET first_movement == paths[r].movements[1]
    IN  [type |-> "recorded", recording |-> r, current_index |-> 0,
         position |-> first_movement.position, aliased |-> FALSE,
         rotation |-> first_movement.rotation, loop |-> FALSE,
         advances |-> 0, period |-> period, ordinal |-> ordinal]

\* A JSON object that has a movements sequence.
HasMovements(recording_data) == "movements" \in DOMAIN recording_data

\* line 292: recording_data["movements"] raises KeyError when the key is
\* missing.
CreateRaises(paths, r) == ~HasMovements(paths[r])

\* create_recorded_boat returns a boat id: lines 292-294 return None for an
\* empty movements sequence.
CanCreate(paths, r) ==
    /\ ~CreateRaises(paths, r)
    /\ Len(paths[r].movements) > 0

AddBoat(boats, id, e) ==
    [b \in DOMAIN boats \cup {id} |-> IF b = id THEN e ELSE boats[b]]

RemoveBoat(boats, id) == [b \in DOMAIN boats \ {id} |-> boats[b]]

\* An end test that is one sample early.
ReachedEnd_Early(paths, e) == e.current_index >= Len(Movements(paths, e)) - 2

\* line 392: the boat has reached the end of its recording.
ReachedEnd(paths, e) == e.current_index >= Len(Movements(paths, e)) - 1

Abs(x) == IF x < 0 THEN -x ELSE x

Sign(x) == IF x < 0 THEN -1 ELSE IF x > 0 THEN 1 ELSE 0

\* lines 436-445: snap to the next sample; the boat's position becomes the
\* sample's dict.
SnapToNext(e, next_movement) ==
    [e EXCEPT !.current_index = @ + 1, !.aliased = TRUE,
              !.rotation = next_movement.rotation, !.advances = @ + 1]

\* A snap test that never lets the cursor advance.
CloseEnough_Never(distance) == FALSE

\* A snap test that misses a boat exactly one step away.
CloseEnough_Strict(distance) == distance < SnapDistance

\* line 436: distance < 0.5 or speed * 0.1 >= distance, with speed * 0.1
\* equal to 0.5.
CloseEnough(distance) == distance <= SnapDistance

\* lines 404-468: one step of a recorded boat that is not at the end.
StepRecordedBoat(paths, e) ==
    LET next_movement == Movements(paths, e)[e.current_index + 2]
        current_pos == BoatPosition(paths, e)
        dir == next_movement.position - current_pos
        distance == Abs(dir)
        moved == current_pos + Sign(dir) * StepLength
    IN  IF CloseEnough(distance)
        THEN [boat |-> SnapToNext(e, next_movement), paths |-> paths]
        ELSE IF e.aliased
        THEN [boat |-> [e EXCEPT !.rotation = next_movement.rotation],
              paths |-> [paths EXCEPT
                  ![e.recording].movements[e.current_index + 1].position = moved]]
        ELSE [boat |-> [e EXCEPT !.position = moved,
                                 !.rotation = next_movement.rotation],
              paths |-> paths]

(***************************************************************************)
(* Linear boats, create_new_boat (lines 253-285) and the linear branch of  *)
(* update_ai_boats (lines 470-496).  The boat moves along one axis:        *)
(* direction is the x component of its heading, step is speed * 0.1, the   *)
(* distance it covers in one tick.  wrapped is history: the boat has been  *)
(* reset to its start at least once.                                       *)
(***************************************************************************)
LinearMaxDistance == 600

LinearStart == 60

\* The directions a caller may pass: heading and speed * 0.1.
Directions == {[x |-> x, step |-> st] : x \in {-1, 0, 1}, st \in {0, 150, 250, 700}}

NewLinearBoat(direction) ==
    [type |-> "linear", position |-> LinearStart, aliased |-> FALSE,
     rotation |-> direction.x, direction |-> direction.x,
     step |-> direction.step, start_position |-> LinearStart,
     distance |-> 0, max_distance |-> LinearMaxDistance, wrapped |-> FALSE]

\* A reset test that lets the distance rest on the maximum.
AtMaxDistance_Strict(distance, max_distance) == distance > max_distance

\* line 487.
AtMaxDistance(distance, max_distance) == distance >= max_distance

\* lines 470-496: one tick of a linear boat.
StepLinearBoat(e) ==
    LET new_x == e.position + e.direction * e.step
        distance == e.distance + e.step
    IN  IF AtMaxDistance(distance, e.max_distance)
        THEN [e EXCEPT !.position = e.start_position, !.distance = 0,
                       !.wrapped = TRUE]
        ELSE [e EXCEPT !.position = new_x, !.distance = distance]

(***************************************************************************)
(* update_ai_boats, lines 383-509: the loop over the snapshot runs without *)
(* suspension until a broadcast has a task to await.  A boat at the end of *)
(* its recording is deleted and skipped (continue, no message); any other  *)
(* is stepped and broadcast to all.  RunTick runs the loop from queue and  *)
(* stops at the first await: sent says whether it stopped there.           *)
(***************************************************************************)
RECURSIVE RunTick(_, _, _, _, _)
RunTick(queue, boats, paths, gone, cc) ==
    IF queue = <<>>
    THEN [queue |-> queue, boats |-> boats, paths |-> paths, gone |-> gone,
          sent |-> FALSE, id |-> 0]
    ELSE LET ai_id == Head(queue)
             ai_data == boats[ai_id]
         IN  IF ai_data.type = "recorded" /\ ReachedEnd(paths, ai_data)
             THEN RunTick(Tail(queue), RemoveBoat(boats, ai_id), paths,
                          gone \cup {[id |-> ai_id, boat |-> ai_data]}, cc)
             ELSE LET st == IF ai_data.type = "linear"
                            THEN [boat |-> StepLinearBoat(ai_data),
                                  paths |-> paths]
                            ELSE StepRecordedBoat(paths, ai_data)
                      stepped == [boats EXCEPT ![ai_id] = st.boat]
                  IN  IF BroadcastToAllTargets(cc) = {}
                      THEN RunTick(Tail(queue), stepped, st.paths, gone, cc)
                      ELSE [queue |-> Tail(queue), boats |-> stepped,
                            paths |-> st.paths, gone |-> gone,
                            sent |-> TRUE, id |-> ai_id]

\* list(ai_boats.items()): the boats in insertion order.
Snapshot(boats) ==
    LET all == [n \in 1..nboats |-> BoatId(n)]
    IN  SelectSeq(all, LAMBDA b : b \in DOMAIN boats)

TickFrom(queue, tk) ==
    LET r == RunTick(queue, ai_boats, recorded_paths, {}, connected_clients)
        msg == OutMsg("boat_update", r.id, BoatData(r.paths, r.boats[r.id]), 0)
    IN  /\ ai_boats' = r.boats
        /\ recorded_paths' = r.paths
        /\ retired' = retired \cup r.gone
        /\ tickQueue' = r.queue
        /\ tickPc' = IF r.sent THEN "gather" ELSE "sleep"
        /\ tasks' = IF r.sent
                    THEN tk \cup CreateTasks(UpdateTask, msg,
                                             BroadcastToAllTargets(connected_clients))
                    ELSE tk

\* One pass of the while loop starts, after asyncio.sleep(0.1), line 512.
Tick ==
    /\ started
    /\ tickPc = "sleep"
    /\ TickFrom(Snapshot(ai_boats), tasks)
    /\ NoInitialSent
    /\ UNCHANGED <<envVars, hubVars, gatherErr, nbcast, schedVars>>

\* A tick loop without its except clauses: the exception leaves the task.
TickCatches_Nothing(err) == ~err

\* lines 506-509: an exception raised while a boat is processed or
\* broadcast is caught inside the for loop, whatever it is.
TickCatches(err) == TRUE

\* The await of broadcast_to_all returns, line 505; an exception of a send
\* is caught at line 508 and the loop goes on with the next boat.
TickGatherReturns ==
    /\ tickPc = "gather"
    /\ GatherDone(tasks, gatherErr, UpdateTask)
    /\ gatherErr' = [gatherErr EXCEPT ![UpdateTask] = FALSE]
    /\ IF TickCatches(gatherErr[UpdateTask])
       THEN TickFrom(tickQueue, Orphaned(tasks, UpdateTask))
       ELSE /\ tickPc' = "failed"
            /\ tasks' = Orphaned(tasks, UpdateTask)
            /\ UNCHANGED <<ai_boats, recorded_paths, retired, tickQueue>>
    /\ NoInitialSent
    /\ UNCHANGED <<envVars, hubVars, nbcast, schedVars>>

(***************************************************************************)
(* spawn_boats_over_time, lines 339-375: one period, up to the await of    *)
(* the broadcast of the new boat.                                          *)
(***************************************************************************)
\* lines 346-350: the recording this period selects, and the cursor after.
SelectedIndex(index, n) == IF index >= n THEN 0 ELSE index

CursorAfter(index, n) == SelectedIndex(index, n) + 1

\* A cap test that still lets a boat in at the target.
UnderTarget_Inclusive(boats) == Cardinality(DOMAIN boats) <= TargetBoats

\* line 353.
UnderTarget(boats) == Cardinality(DOMAIN boats) < TargetBoats

\* A scheduler that spawns in recording mode as well.
SpawnAllowed_AnyMode == recorded_paths # <<>>

\* line 344.
SpawnAllowed == recorded_paths # <<>> /\ ~record_sessions

SpawnPeriod ==
    LET n == Len(recorded_paths)
        r == SelectedIndex(current_recording_index, n) + 1
        under == UnderTarget(ai_boats)
        creates == under /\ CanCreate(recorded_paths, r)
        boat_id == BoatId(nboats + 1)
        e == NewRecordedBoat(recorded_paths, r, periods + 1, spawned + 1)
        msg == OutMsg("boat_update", boat_id, BoatData(recorded_paths, e), 0)
        targets == BroadcastToAllTargets(connected_clients)
    IN  /\ started
        /\ spawnPc = "sleep"
        /\ SpawnAllowed
        /\ current_recording_index' =
               CursorAfter(current_recording_index, n)
        /\ periods' = periods + 1
        /\ ai_boats' = IF creates THEN AddBoat(ai_boats, boat_id, e) ELSE ai_boats
        /\ nboats' = IF creates THEN nboats + 1 ELSE nboats
        /\ spawned' = IF creates THEN spawned + 1 ELSE spawned
        /\ tasks' = IF creates THEN tasks \cup CreateTasks(SpawnTask, msg, targets)
                    ELSE tasks
        /\ spawnPc' = IF creates /\ targets # {} THEN "gather" ELSE "sleep"
        /\ NoInitialSent
        /\ UNCHANGED <<envVars, hubVars, gatherErr, nbcast, recorded_paths,
                       tickVars>>

\* The await of broadcast_to_all returns, line 367; an exception of a send
\* is caught at line 368.
SpawnGatherReturns ==
    /\ spawnPc = "gather"
    /\ GatherDone(tasks, gatherErr, SpawnTask)
    /\ gatherErr' = [gatherErr EXCEPT ![SpawnTask] = FALSE]
    /\ tasks' = Orphaned(tasks, SpawnTask)
    /\ spawnPc' = "sleep"
    /\ NoInitialSent
    /\ UNCHANGED <<envVars, hubVars, nbcast, recorded_paths, ai_boats,
                   current_recording_index, nboats, periods, spawned, tickVars>>

(***************************************************************************)
(* main, lines 619-651, up to serving: create_ai_boats (lines 237-251)     *)
(* loads the recordings and creates up to two initial boats, then the      *)
(* background tasks and the server start.                                  *)
(***************************************************************************)
\* What a file of the directory can be besides a recording: a file that
\* cannot be opened, a file that is not JSON, and a JSON object without a
\* movements key.
Unreadable == [error |-> "OSError"]

BadJson == [error |-> "JSONDecodeError"]

NoMovements == [client_id |-> 0]

\* lines 177-178: open and json.load succeed.
Parses(f) == "error" \notin DOMAIN f

\* load_recordings, lines 155-186: the parsed value is appended at line 179,
\* before line 180 reads its movements; the except of line 181 skips the
\* rest of the iteration but the value stays in the list.
LoadRecordings(fs) == SelectSeq(fs, Parses)

\* The directory of a server whose store holds damaged files.
DamagedStores ==
    { <<Unreadable, Rec(<<0, 3>>), BadJson, Rec(<<1, 3>>), NoMovements>>,
      <<Rec(<<0, 3>>), NoMovements>>,
      <<NoMovements>>,
      <<BadJson, Unreadable>> }

\* create_ai_boats, lines 243-246: the loop has no try, so the KeyError of
\* create_recorded_boat ends it and the boats created so far remain.
RECURSIVE CreateInitial(_, _, _)
CreateInitial(paths, boats, i) ==
    IF i > InitialBoats \/ i > Len(paths) THEN boats
    ELSE IF CreateRaises(paths, i) THEN boats
    ELSE CreateInitial(paths,
                       IF CanCreate(paths, i)
                       THEN AddBoat(boats, BoatId(Cardinality(DOMAIN boats) + 1),
                                    NewRecordedBoat(paths, i, 0, 0))
                       ELSE boats,
                       i + 1)

\* create_ai_boats raises: main (line 627) and asyncio.run propagate it.
InitialRaises(paths) ==
    \E i \in 1..InitialBoats : i <= Len(paths) /\ CreateRaises(paths, i)

Startup ==
    LET paths == LoadRecordings(files)
        boats == CreateInitial(paths, ai_boats, 1)
    IN  /\ ~started
        /\ ~mainRaised
        /\ started' = ~InitialRaises(paths)
        /\ mainRaised' = InitialRaises(paths)
        /\ recorded_paths' = paths
        /\ ai_boats' = boats
        /\ nboats' = Cardinality(DOMAIN boats)
        /\ NoInitialSent
        /\ UNCHANGED <<record_sessions, files, clock, hubVars, fanVars,
                       current_recording_index, spawnPc, periods, spawned,
                       tickVars>>

(***************************************************************************)
(* Spec: the connection handlers and the fan-out.                          *)
(***************************************************************************)
Next ==
    \/ Startup
    \/ \E c \in Clients : Connect(c)
    \/ \E c \in Clients : ConnClose(c)
    \/ \E c \in Clients : Register(c)
    \/ \E c \in Senders, m \in HubMessages, w \in BOOLEAN :
          nbcast < MaxBcasts /\ Receive(c, m, w)
    \/ \E c \in Clients, w \in BOOLEAN : HandlerSeesClose(c, w)
    \/ \E t \in tasks : SendRun(t)
    \/ \E c \in Clients, w \in BOOLEAN : GatherReturns(c, w)

Spec == Init /\ [][Next]_vars

(***************************************************************************)
(* SpecRec: one session in recording mode.  The client reports the         *)
(* position k in its k-th well-formed update, so that a sample tells       *)
(* which update it came from.                                              *)
(***************************************************************************)
ClockTick ==
    /\ clock < MaxClock
    /\ clock' = clock + 1
    /\ NoInitialSent
    /\ UNCHANGED <<record_sessions, files, started, mainRaised, hubVars,
                   fanVars, aiVars>>

RecClients == {1}

RecMessages(c) ==
    {InMsg("boat_update", bd, "") :
        bd \in {Pose(Len(connected_clients[c].recording) + 1), NoPosition,
                Scalar}}
    \cup {InMsg("bad_json", NoData, "")}

InitRec ==
    /\ record_sessions = TRUE
    /\ files = <<>>
    /\ InitProgram

NextRec ==
    \/ Startup
    \/ ClockTick
    \/ \E c \in RecClients : Connect(c)
    \/ \E c \in RecClients : ConnClose(c)
    \/ \E c \in RecClients : Register(c)
    \/ \E c \in RecClients, w \in BOOLEAN : \E m \in RecMessages(c) :
          /\ Len(connected_clients[c].recording) < MaxSamples
          /\ Receive(c, m, w)
    \/ \E c \in RecClients, w \in BOOLEAN : HandlerSeesClose(c, w)

SpecRec == InitRec /\ [][NextRec]_vars

(***************************************************************************)
(* SpecAI: the tick loop and the spawn scheduler, with a client that       *)
(* connects and disconnects but sends nothing.                             *)
(***************************************************************************)
AIClients == {1}

InitAI ==
    /\ record_sessions = FALSE
    /\ files \in StoreChoices
    /\ InitProgram

NextAI ==
    \/ Startup
    \/ Tick
    \/ TickGatherReturns
    \/ periods < MaxPeriods /\ SpawnPeriod
    \/ SpawnGatherReturns
    \/ \E c \in AIClients : Connect(c)
    \/ \E c \in AIClients : ConnClose(c)
    \/ \E c \in AIClients : Register(c)
    \/ \E c \in AIClients, w \in BOOLEAN : HandlerSeesClose(c, w)
    \/ \E t \in tasks : SendRun(t)

SpecAI == InitAI /\ [][NextAI]_vars

(***************************************************************************)
(* SpecAILive: SpecAI under the event loop's scheduling.  A task that is   *)
(* ready to run is run: the sends a broadcast created, and the loop that   *)
(* awaits them once they are done.                                         *)
(***************************************************************************)
BackgroundTasks == {UpdateTask, SpawnTask}

SendOf(o) == \E t \in tasks : t.owner = o /\ SendRun(t)

SpecAILive ==
    /\ SpecAI
    /\ \A o \in BackgroundTasks : WF_vars(SendOf(o))
    /\ WF_vars(TickGatherReturns)
    /\ WF_vars(SpawnGatherReturns)

(***************************************************************************)
(* SpecLinear: a linear boat in the tick loop.  create_new_boat has no     *)
(* caller in this program; the specification calls it once, with any of    *)
(* the directions, on a started server without recordings.                 *)
(***************************************************************************)
CreateNewBoat(direction) ==
    /\ started
    /\ nboats = 0
    /\ tickPc = "sleep"
    /\ ai_boats' = AddBoat(ai_boats, BoatId(1), NewLinearBoat(direction))
    /\ nboats' = 1
    /\ NoInitialSent
    /\ UNCHANGED <<envVars, hubVars, fanVars, recorded_paths,
                   current_recording_index, spawnPc, periods, spawned,
                   tickVars>>

InitLinear ==
    /\ record_sessions = FALSE
    /\ files = <<>>
    /\ InitProgram

NextLinear ==
    \/ Startup
    \/ \E direction \in Directions : CreateNewBoat(direction)
    \/ Tick
    \/ TickGatherReturns
    \/ \E c \in AIClients : Connect(c)
    \/ \E c \in AIClients : ConnClose(c)
    \/ \E c \in AIClients : Register(c)
    \/ \E c \in AIClients, w \in BOOLEAN : HandlerSeesClose(c, w)
    \/ \E t \in tasks : SendRun(t)

SpecLinear == InitLinear /\ [][NextLinear]_vars

(***************************************************************************)
(* SpecShare: the store holds one recording, so the initial boat and the   *)
(* boats the scheduler creates all replay the same one.                    *)
(***************************************************************************)
InitShare ==
    /\ record_sessions = FALSE
    /\ files = <<Rec(<<0, 1, 4>>)>>
    /\ InitProgram

SpecShare == InitShare /\ [][NextAI]_vars

(***************************************************************************)
(* SpecTicking: the stores of SpecAI and of SpecShare, with a tick loop    *)
(* that keeps running: its sleep ends, its sends run and its await of a    *)
(* broadcast returns.                                                      *)
(***************************************************************************)
InitTicking ==
    /\ record_sessions = FALSE
    /\ files \in StoreChoices \cup {<<Rec(<<0, 1, 4>>)>>}
    /\ InitProgram

\* A pass of the tick loop can start and has a boat to process; such a
\* pass always changes the state (the boat is removed, snaps or moves).
TickEnabled == started /\ tickPc = "sleep" /\ DOMAIN ai_boats # {}

\* Weak fairness of Tick, WF_vars(Tick), written with its enabling condition:
\* asyncio.sleep(0.1) at line 512 returns.
TickFair == []<>(~TickEnabled) \/ []<><<Tick>>_vars

SpecTicking ==
    /\ InitTicking /\ [][NextAI]_vars
    /\ TickFair
    /\ WF_vars(TickGatherReturns)
    /\ WF_vars(SendOf(UpdateTask))

(***************************************************************************)
(* SpecLoad: a server started on a store that holds damaged files.         *)
(***************************************************************************)
InitLoad ==
    /\ record_sessions = FALSE
    /\ files \in DamagedStores
    /\ InitProgram

SpecLoad == InitLoad /\ [][NextAI]_vars

(***************************************************************************)
(* SpecJoin: clients join a running game.  The simulation ticks while no   *)
(* client is registered; clients then connect, report poses and flags,     *)
(* and leave.                                                              *)
(***************************************************************************)
\* The first connection reports; the later ones join and listen.
JoinSenders == {1}

JoinPoses == {Pose(1), Pose(2)}

JoinMessages ==
    {InMsg("boat_update", bd, "") : bd \in JoinPoses}
    \cup {InMsg("flag_update", NoData, "fr")}

InitJoin ==
    /\ record_sessions = FALSE
    /\ files = <<Rec(<<0, 3>>)>>
    /\ InitProgram

NextJoin ==
    \/ Startup
    \/ Registered(connected_clients) = {} /\ Tick
    \/ \E c \in Clients : Connect(c)
    \/ \E c \in Clients : ConnClose(c)
    \/ \E c \in Clients : Register(c)
    \/ \E c \in JoinSenders, m \in JoinMessages, w \in BOOLEAN :
          nbcast < MaxUpdates /\ Receive(c, m, w)
    \/ \E c \in Clients, w \in BOOLEAN : HandlerSeesClose(c, w)
    \/ \E t \in tasks : SendRun(t)
    \/ \E c \in Clients, w \in BOOLEAN : GatherReturns(c, w)

SpecJoin == InitJoin /\ [][NextJoin]_vars

(***************************************************************************)
(* SpecFlag: one client reports poses, with or without a flag of their     *)
(* own, and flag codes, empty or not, while the others come and go.        *)
(***************************************************************************)
FlagSenders == {1}

\* A boat_data that carries its own "flag" key.
WithFlag(bd, code) == [bd EXCEPT !.flag = code]

FlagPoses == {Pose(1), WithFlag(Pose(2), "de")}

FlagMessages ==
    {InMsg("boat_update", bd, "") : bd \in FlagPoses} \cup FlagUpdates

NextFlag ==
    \/ Startup
    \/ \E c \in Clients : Connect(c)
    \/ \E c \in Clients : ConnClose(c)
    \/ \E c \in Clients : Register(c)
    \/ \E c \in FlagSenders, m \in FlagMessages, w \in BOOLEAN :
          nbcast < MaxUpdates /\ Receive(c, m, w)
    \/ \E c \in Clients, w \in BOOLEAN : HandlerSeesClose(c, w)
    \/ \E t \in tasks : SendRun(t)
    \/ \E c \in Clients, w \in BOOLEAN : GatherReturns(c, w)

SpecFlag == InitJoin /\ [][NextFlag]_vars

(***************************************************************************)
(* SpecFan: every kind of fan-out at once.  The tick loop broadcasts a     *)
(* boat to all clients while clients register, relay an update and leave.  *)
(***************************************************************************)
FanClients == {1, 2}

FanMessages == {InMsg("boat_update", Pose(1), "")}

NextFan ==
    \/ Startup
    \/ Tick
    \/ TickGatherReturns
    \/ \E c \in FanClients : Connect(c)
    \/ \E c \in FanClients : ConnClose(c)
    \/ \E c \in FanClients : Register(c)
    \/ \E c \in FanClients, m \in FanMessages, w \in BOOLEAN :
          nbcast < MaxBcasts /\ Receive(c, m, w)
    \/ \E c \in FanClients, w \in BOOLEAN : HandlerSeesClose(c, w)
    \/ \E t \in tasks : SendRun(t)
    \/ \E c \in FanClients, w \in BOOLEAN : GatherReturns(c, w)

SpecFan == InitJoin /\ [][NextFan]_vars

(***************************************************************************)
(* SpecRun: one run of the server in either mode, started with one         *)
(* recording in the store: a client's session (recorded when the mode is   *)
(* on), the tick loop and the scheduler.                                   *)
(***************************************************************************)
InitRun ==
    /\ record_sessions \in BOOLEAN
    /\ files = <<Rec(<<0, 3>>)>>
    /\ InitProgram

NextRun ==
    \/ Startup
    \/ Tick
    \/ TickGatherReturns
    \/ periods < MaxPeriods /\ SpawnPeriod
    \/ SpawnGatherReturns
    \/ \E c \in RecClients : Connect(c)
    \/ \E c \in RecClients : ConnClose(c)
    \/ \E c \in RecClients : Register(c)
    \/ \E c \in RecClients, w \in BOOLEAN : \E m \in RecMessages(c) :
          /\ record_sessions
          /\ Len(connected_clients[c].recording) < MaxSamples
          /\ Receive(c, m, w)
    \/ \E c \in RecClients, w \in BOOLEAN : HandlerSeesClose(c, w)
    \/ \E t \in tasks : SendRun(t)

SpecRun == InitRun /\ [][NextRun]_vars

(***************************************************************************)
(* Properties.                                                             *)
(***************************************************************************)
\* The handler of c is in its dispatch loop (between register and finally).
InLoop(c) == pc[c] \in {"recv", "gather_msg"}

\* This step takes the handler of c out of its dispatch loop into finally.
Finalizes(c) ==
    /\ InLoop(c)
    /\ pc'[c] \in {"gather_unreg", "ended"}

\* The send tasks this step creates.
NewTasks == tasks' \ tasks

TaskKeys(tk) == {[to |-> t.to, msg |-> t.msg, owner |-> t.owner] : t \in tk}

NumSamples(e) == Len(recorded_paths[e.recording].movements)

\* C1: the registry holds exactly the connections whose handler is in its
\* dispatch loop: no entry outlives its handler, and every connection being
\* served has one, so the client count equals the number of such connections.
C1_RegistryMatchesConnections ==
    /\ \A c \in Clients : connected_clients[c].present <=> InLoop(c)
    /\ Cardinality(Registered(connected_clients))
         = Cardinality({c \in Clients : InLoop(c)})

\* The step in which the handler of client a takes a well-formed boat_update
\* and reaches its broadcast creates one send of the resulting message,
\* carrying a's stored boat_data, for every registered client other than a.
C2_Relay(a) ==
    LET new == {t \in NewTasks : t.msg.type = "boat_update" /\ t.owner = a}
        targets == Registered(connected_clients') \ {a}
    IN  (\E m \in HubMessages, w \in BOOLEAN :
            /\ Receive(a, m, w)
            /\ m.kind = "boat_update" /\ m.boat_data.shape = "pose"
            /\ nbcast' = nbcast + 1 /\ InLoop(a)')
        => /\ {t.to : t \in new} = targets
           /\ Cardinality(new) = Cardinality(targets)
           /\ \A t \in new : /\ t.msg.client_id = a
                             /\ t.msg.boat_data = connected_clients'[a].boat_data
           /\ new \cap tasks = {}

C2_NeverToSender ==
    \A t \in tasks : t.msg.type = "boat_update" => t.to # t.msg.client_id

C3_BroadcastFailureStaysInLoop ==
    [][\A a \in Clients :
          pc[a] = "gather_msg"
          => pc'[a] \in {"gather_msg", "recv"} /\ connected_clients'[a].present]_vars

\* A step removes at most one pending send, and removes a registry entry only
\* as the entry's own handler leaves its loop.
C4_Step ==
    /\ Cardinality(TaskKeys(tasks) \ TaskKeys(tasks')) <= 1
    /\ \A c \in Clients :
          connected_clients[c].present /\ ~connected_clients'[c].present
          => Finalizes(c)

\* Every send created and not yet run can run.
C4_PendingSendsRunnable == \A t \in tasks : ENABLED SendRun(t)

\* C4: a send that fails removes no other pending send (the other sends of
\* its broadcast stay scheduled and can run), and the failing recipient's
\* entry stays in the registry until the recipient's own handler removes it.
C4_FailedSendIsLocal == [](C4_PendingSendsRunnable) /\ [][C4_Step]_vars

C4_Witness ==
    \E a \in Clients, b \in Clients :
        /\ gatherErr[a]
        /\ Children(tasks, a) # {}
        /\ connected_clients[b].present
        /\ transport[b] = "closed"
        /\ \A t \in tasks : t.to # b

\* The step in which the handler of c leaves its loop removes the entry of c
\* and creates a boat_disconnected naming c for every remaining client.
C5_Step(c) ==
    Finalizes(c)
    => /\ ~connected_clients'[c].present
       /\ \A d \in Registered(connected_clients') \ {c} :
             \E t \in NewTasks : /\ t.to = d
                                 /\ t.msg.type = "boat_disconnected"
                                 /\ t.msg.client_id = c

\* C5: whenever a client's handler leaves its dispatch loop (the connection
\* ended), whatever the client sent before, the client's entry is removed
\* and one boat_disconnected naming it is sent to every client that remains
\* registered.
C5_DisconnectRemovesAndNotifies == [][\A c \in Clients : C5_Step(c)]_vars

\* C6: whatever message the handler takes, the handler is in its dispatch
\* loop afterwards and the client is still registered.
C6_NoMessageEndsConnection ==
    [][\A c \in Clients, m \in HubMessages, w \in BOOLEAN :
          Receive(c, m, w) => InLoop(c)' /\ connected_clients'[c].present]_vars

\* The cursor of a boat on a recording of N samples counts its advances and
\* is at most N-1; a removed boat had cursor N-1.
C7_Cursor ==
    /\ \A id \in DOMAIN ai_boats :
          LET e == ai_boats[id]
          IN  /\ e.current_index <= NumSamples(e) - 1
              /\ e.advances = e.current_index
    /\ \A x \in retired :
          /\ x.boat.current_index = NumSamples(x.boat) - 1
          /\ x.boat.advances = NumSamples(x.boat) - 1

\* A boat is removed only at cursor N-1, and is not changed at cursor N-1.
C7_Step ==
    \A id \in DOMAIN ai_boats :
        LET e == ai_boats[id]
        IN  /\ id \notin DOMAIN ai_boats'
               => e.current_index = NumSamples(e) - 1
            /\ (id \in DOMAIN ai_boats' /\ e.current_index = NumSamples(e) - 1)
               => ai_boats'[id] = e

\* C7: a non-looping recorded boat on a recording of N samples is removed
\* after exactly N-1 advances of its cursor: the cursor never exceeds N-1,
\* the boat is not stepped again once the cursor is N-1, and the tick loop
\* does not remove it while the cursor is below N-1.
C7_RetiredAfterExactlyNMinus1 == [](C7_Cursor) /\ [][C7_Step]_vars

C7_Witness ==
    \E x \in retired : NumSamples(x.boat) = 3 /\ x.boat.advances = 2

\* C8: the step of the tick loop that removes a boat creates a
\* boat_disconnected naming the boat for every registered client.
C8_RetirementIsBroadcast ==
    [][\A id \in DOMAIN ai_boats :
          id \notin DOMAIN ai_boats'
          => \A d \in Registered(connected_clients) :
                \E t \in NewTasks : /\ t.to = d
                                    /\ t.msg.type = "boat_disconnected"
                                    /\ t.msg.client_id = id]_vars

\* The samples are in the order the updates were received (the client of
\* SpecRec reports position k in its k-th well-formed update), with
\* non-decreasing timestamps.
InCaptureOrder(recording) ==
    \A k \in 1..Len(recording) :
        /\ recording[k].position = k
        /\ k > 1 => recording[k - 1].timestamp <= recording[k].timestamp

C9_Buffers ==
    /\ \A c \in Clients : InCaptureOrder(connected_clients[c].recording)
    /\ \A r \in 1..Len(recorded_paths) :
          /\ InCaptureOrder(recorded_paths[r].movements)
          /\ Len(recorded_paths[r].movements) > RecordingThreshold

Saved(c) ==
    LET data == RecordingData(c, connected_clients[c].recording)
    IN  /\ recorded_paths' = Append(recorded_paths, data)
        /\ files' = Append(files, data)

C9_OriginalStep(c) ==
    Finalizes(c)
    => IF Len(connected_clients[c].recording) <= RecordingThreshold
       THEN UNCHANGED <<recorded_paths, files>>
       ELSE Saved(c)

C9_AmendedStep(c, writeOk) ==
    (HandlerSeesClose(c, writeOk) \/ \E m \in RecMessages(c) : Receive(c, m, writeOk))
    => (Finalizes(c)
        => IF Len(connected_clients[c].recording) > RecordingThreshold /\ writeOk
           THEN Saved(c)
           ELSE UNCHANGED <<recorded_paths, files>>)

NonEmptyStore ==
    \A r \in 1..Len(recorded_paths) : recorded_paths[r].movements # <<>>

\* C10: with three non-empty recordings in the store, the k-th boat the
\* scheduler creates replays recording ((k-1) mod 3)+1.
C10_KthBoatUsesKthRecording ==
    (Len(recorded_paths) = 3 /\ NonEmptyStore)
    => \A id \in DOMAIN ai_boats :
          LET e == ai_boats[id]
          IN  e.ordinal >= 1 => e.recording = ((e.ordinal - 1) % 3) + 1

\* A state in which the claim of C10 fails at the cap: the second boat the
\* scheduler created was created in its third period, from the third
\* recording.
C10_Witness ==
    /\ Len(recorded_paths) = 3
    /\ NonEmptyStore
    /\ \E id \in DOMAIN ai_boats :
          /\ ai_boats[id].ordinal = 2
          /\ ai_boats[id].period = 3
          /\ ai_boats[id].recording = 3

IsSpawnPeriod == periods' = periods + 1

\* The boat created first among the active ones (ids are given in the order
\* of creation).
Oldest(boats) == CHOOSE id \in DOMAIN boats : \A b \in DOMAIN boats : id <= b

\* This step creates a send of msg type ty naming id for every registered
\* client.
BroadcastCreated(ty, id) ==
    \A d \in Registered(connected_clients) :
        \E t \in NewTasks : t.to = d /\ t.msg.type = ty /\ t.msg.client_id = id

SavedInRun == {r \in 1..Len(recorded_paths) : recorded_paths[r].client_id \in Clients}

C14_SamplesNeverChange == started => recorded_paths = LoadRecordings(files)

\* A boat has snapped to a sample that is not the last of its recording: its
\* position is now the sample's own dict, and the next step moves it.
C14_Witness ==
    \E id \in DOMAIN ai_boats :
        /\ ai_boats[id].aliased
        /\ ~ReachedEnd(recorded_paths, ai_boats[id])
        /\ recorded_paths # LoadRecordings(files)

\* A send of the task's broadcast has failed and the task has yet to see it.
FailureIn(o) == gatherErr[o]

\* The step in which the task sees the failure.
HandlesFailure(o) == gatherErr[o] /\ ~gatherErr'[o]

\* The step in which one background task meets its failure leaves that
\* task in its loop, and the other task and the handlers where they were.
C15_Step ==
    /\ HandlesFailure(UpdateTask) =>
          /\ tickPc' \in {"sleep", "gather"}
          /\ spawnPc' = spawnPc /\ pc' = pc
    /\ HandlesFailure(SpawnTask) =>
          /\ spawnPc' = "sleep"
          /\ tickPc' = tickPc /\ pc' = pc

\* C15: a failure inside the tick loop or the spawn scheduler does not stop
\* the task: after it the task gets back to its sleep, from which its next
\* pass starts; and the step in which one task meets its failure leaves the
\* other background task and every connection handler where they were.
C15_BackgroundTasksRecover ==
    /\ FailureIn(UpdateTask) ~> (tickPc = "sleep" /\ ~FailureIn(UpdateTask))
    /\ FailureIn(SpawnTask) ~> (spawnPc = "sleep" /\ ~FailureIn(SpawnTask))
    /\ [][C15_Step]_vars

\* A send of the tick loop's broadcast has failed while the scheduler, too,
\* awaits a broadcast.
C15_Witness ==
    /\ FailureIn(UpdateTask) /\ tickPc = "gather"
    /\ spawnPc = "gather"

LinearBoats(boats) == {id \in DOMAIN boats : boats[id].type = "linear"}

\* C16: the distance a linear boat has stored is below max_distance, and a
\* tick either adds the step to it, when the sum is below max_distance, or,
\* when the sum reaches or exceeds max_distance, sets the distance to 0 and
\* the position to the start position in that tick.
C16_DistanceGrowsThenResets ==
    [][\A id \in LinearBoats(ai_boats) \cap LinearBoats(ai_boats') :
          LET e == ai_boats[id]
              f == ai_boats'[id]
          IN  /\ f.distance < f.max_distance
              /\ f # e =>
                   IF e.distance + e.step < e.max_distance
                   THEN /\ f.distance = e.distance + e.step
                        /\ f.distance >= e.distance
                   ELSE /\ f.distance = 0
                        /\ f.position = f.start_position]_vars

\* A linear boat has been reset to its start and is under way again.
C16_Witness ==
    \E id \in LinearBoats(ai_boats) :
        /\ ai_boats[id].wrapped
        /\ ai_boats[id].distance > 0
        /\ ai_boats[id].position # ai_boats[id].start_position

\* C17: startup never ends in an uncaught error, and after loading every
\* entry of the available set has a movements sequence.
C17_LoadSkipsBadEntries ==
    /\ ~mainRaised
    /\ started => \A r \in 1..Len(recorded_paths) : HasMovements(recorded_paths[r])

\* A file without movements was loaded into the available set and the
\* creation of the initial boats raised on it.
C17_Witness ==
    /\ mainRaised
    /\ \E r \in 1..Len(recorded_paths) : ~HasMovements(recorded_paths[r])

\* The sends of relayed boat_updates of client a that have not run yet.
PendingRelays(tk, a) == {t \in tk : t.owner = a /\ t.msg.type = "boat_update"}

\* The step starts the relay of a message of client a.
StartsRelay(a) ==
    {t.msg : t \in PendingRelays(tasks', a)} \ {t.msg : t \in tasks} # {}

\* C18: when the hub starts relaying a message of client A, every send of
\* the relay of A's previous message has been issued, so a client that is
\* sent both is sent them in the order A sent them; the pending relays of
\* one client are always those of one message.
C18_RelaysInSendOrder ==
    [][\A a \in Clients :
          /\ StartsRelay(a) => PendingRelays(tasks, a) = {}
          /\ \A t, u \in PendingRelays(tasks', a) : t.msg = u.msg]_vars

\* The relay of the second update of client 1 to client 2 is pending, its
\* first update having been relayed before.
C18_Witness ==
    /\ nbcast = 2
    /\ \E t \in PendingRelays(tasks, 1) :
          t.to = 2 /\ t.msg.serial = 2 /\ t.msg.boat_data = Pose(2)

\* The coroutine o is not inside a broadcast call.
BroadcastReturned(o) ==
    IF o \in Clients THEN pc[o] \notin {"gather_msg", "gather_unreg"}
    ELSE IF o = UpdateTask THEN tickPc # "gather"
    ELSE spawnPc # "gather"

\* C19: once a broadcast call has returned to its caller, none of the sends
\* it started is still pending, also when one of them failed.
C19_NoSendOutlivesBroadcast ==
    \A o \in Owners : BroadcastReturned(o) => \A t \in tasks : t.owner # o

\* A broadcast has returned with the exception of one send while another of
\* its sends has not run yet.
C19_Witness ==
    \E t \in tasks : ~t.awaited /\ BroadcastReturned(t.owner)

\* The sends a broadcast of coroutine o starts in this step.
StartedSends(o) == {t \in tasks' \ tasks : t.owner = o /\ t.awaited}

\* The registry entries other than o's own are those of before the step.
OthersUntouched(o) ==
    \A d \in Clients \ {o} : connected_clients'[d] = connected_clients[d]

\* A step that starts a broadcast chooses its recipients from one registry:
\* one send per entry (but the sender's), and no entry of another
\* connection is added, removed or changed by the step.  The same for the
\* step in which register builds the initial_boats message.
C20_Step ==
    /\ \A o \in Owners :
          StartedSends(o) # {} =>
            /\ {t.to : t \in StartedSends(o)} =
                   Registered(connected_clients') \ {o}
            /\ OthersUntouched(o)
    /\ \A c \in Clients :
          initial_boats'[c] # <<>> =>
            /\ DOMAIN initial_boats'[c] \cap Clients =
                   OtherBoats(connected_clients', c)
            /\ OthersUntouched(c)

\* C20: the registry entries a broadcast or an initial snapshot iterates
\* over are those of one state: no connect or disconnect of another
\* connection takes effect while the recipients are chosen.
C20_RecipientsFromOneRegistry == [][C20_Step]_vars

\* The tick loop's broadcast of a boat has a send pending for each of two
\* registered clients, one of which has closed its connection.
C20_Witness ==
    /\ tickPc = "gather"
    /\ \A c \in FanClients :
          /\ connected_clients[c].present
          /\ \E t \in tasks : t.owner = UpdateTask /\ t.awaited /\ t.to = c
    /\ \E c \in FanClients : transport[c] = "closed"

\* The queue the pass of this step runs from: a new pass takes a snapshot,
\* a resumed pass continues with the rest of its queue.
PassQueue == IF tickPc = "sleep" THEN Snapshot(ai_boats) ELSE tickQueue

\* The step is a step of the tick loop.
IsTickStep == Tick \/ TickGatherReturns

\* The boats the step has stepped and kept.
Stepped ==
    {PassQueue[i] : i \in 1..(Len(PassQueue) - Len(tickQueue'))}
        \cap DOMAIN ai_boats'

\* One tick of a recorded boat, from e to f, toward the next sample.
C21_TickOf(e, f) ==
    LET next == Movements(recorded_paths, e)[e.current_index + 2]
        d == Abs(next.position - BoatPosition(recorded_paths, e))
        after == BoatPosition(recorded_paths', f)
    IN  /\ f.rotation = next.rotation
        /\ IF d <= SnapDistance
           THEN /\ f.current_index = e.current_index + 1
                /\ after = next.position
           ELSE /\ f.current_index = e.current_index
                /\ Abs(next.position - after) = d - StepLength
                /\ Abs(after - BoatPosition(recorded_paths, e)) = StepLength

\* C21: a tick of a recorded boat below its last sample, at distance d from
\* the next sample: if d is at most the snap distance the boat takes the
\* next sample's position and rotation and its cursor advances by one; if
\* not, the cursor stays, the position moves one step length toward the
\* next sample and the rotation is the next sample's.
C21_SnapOrStep ==
    [][(IsTickStep /\ Cardinality(Stepped) = 1) =>
          \A id \in Stepped : C21_TickOf(ai_boats[id], ai_boats'[id])]_vars

\* A boat has snapped to a sample and then moved a step toward the next.
C21_Witness ==
    \E id \in DOMAIN ai_boats :
        LET e == ai_boats[id]
        IN  /\ e.advances = 1
            /\ ~ReachedEnd(recorded_paths, e)
            /\ BoatPosition(recorded_paths, e) #
                   LoadRecordings(files)[e.recording].movements[e.current_index + 1].position

\* The sends of this step's boat_update of boat id to client d.
UpdatesOf(id, d) ==
    {t \in StartedSends(UpdateTask) :
        t.to = d /\ t.msg.type = "boat_update" /\ t.msg.client_id = id}

\* Every boat the step has stepped and kept is broadcast once to every
\* registered client, with its pose after the step.
C22_EachSteppedBoatBroadcast ==
    \A id \in Stepped : \A d \in Registered(connected_clients) :
        /\ Cardinality(UpdatesOf(id, d)) = 1
        /\ \A t \in UpdatesOf(id, d) :
              /\ t.msg.boat_data.position =
                     BoatPosition(recorded_paths', ai_boats'[id])
              /\ t.msg.boat_data.rotation = ai_boats'[id].rotation

\* The pass goes on after a failed broadcast: the next boat of the queue is
\* stepped or retired in the step that meets the failure.
C22_FailureDoesNotStopPass ==
    (TickGatherReturns /\ gatherErr[UpdateTask] /\ tickQueue # <<>>) =>
        /\ Len(tickQueue') < Len(tickQueue)
        /\ Head(tickQueue) \in Stepped \cup {x.id : x \in retired' \ retired}

\* C22: in every tick each boat that is stepped and not retired is
\* broadcast exactly once, with its id and its pose after the step, to all
\* registered clients, and a failed broadcast of one boat does not keep the
\* remaining boats of the pass from being stepped and broadcast.
C22_TickBroadcastsEveryBoat ==
    [][IsTickStep => C22_EachSteppedBoatBroadcast /\ C22_FailureDoesNotStopPass]_vars

\* The broadcast of a boat is pending for a registered client whose
\* connection is closed, in a pass that has already broadcast an earlier
\* boat.
C22_Witness ==
    /\ tickPc = "gather"
    /\ \E c \in AIClients :
          connected_clients[c].present /\ transport[c] = "closed"
    /\ \E t \in tasks :
          /\ t.owner = UpdateTask /\ t.awaited
          /\ \E id \in DOMAIN ai_boats : id < t.msg.client_id

\* C23: the number of active AI boats never exceeds the target: startup
\* creates at most two, and the scheduler adds a boat only below the target,
\* however its periods interleave with the tick loop's removals.
C23_AtMostTargetBoats ==
    /\ Cardinality(DOMAIN ai_boats) <= TargetBoats
    /\ spawned = 0 => Cardinality(DOMAIN ai_boats) <= InitialBoats

\* The set is full again after a boat was removed: the scheduler has
\* created two boats and run a period at the cap.
C23_Witness ==
    /\ Cardinality(DOMAIN ai_boats) = TargetBoats
    /\ retired # {}
    /\ spawned = 2
    /\ periods > spawned

\* The pose and the cursor of a boat, as a reader of ai_boats sees them.
PoseOf(paths, e) ==
    [position |-> BoatPosition(paths, e), rotation |-> e.rotation,
     current_index |-> e.current_index]

\* The sample a boat is heading for is where the recording had it when it
\* was loaded, so that every boat of a recording replays the same poses.
C24_SameTargets ==
    \A id \in DOMAIN ai_boats :
        LET e == ai_boats[id]
        IN  ~ReachedEnd(recorded_paths, e) =>
              Movements(recorded_paths, e)[e.current_index + 2] =
                 Movements(LoadRecordings(files), e)[e.current_index + 2]

\* A step of the tick loop leaves the boats it has not stepped as they were.
C24_OthersUnchanged ==
    IsTickStep =>
        \A id \in (DOMAIN ai_boats \cap DOMAIN ai_boats') \ Stepped :
            PoseOf(recorded_paths', ai_boats'[id]) =
               PoseOf(recorded_paths, ai_boats[id])

\* C24: boats replaying the same recording are independent: stepping one
\* changes neither the pose nor the cursor of another, and a boat created
\* later heads for the same samples as the first boat of the recording did.
C24_BoatsIndependent == [](C24_SameTargets) /\ [][C24_OthersUnchanged]_vars

\* Two boats of one recording have snapped to the same sample, which is not
\* its last: the position of both is that sample's dict.
C24_Witness ==
    \E a, b \in DOMAIN ai_boats :
        /\ a # b
        /\ ai_boats[a].aliased /\ ai_boats[b].aliased
        /\ ai_boats[a].recording = ai_boats[b].recording
        /\ ai_boats[a].current_index = ai_boats[b].current_index
        /\ ~ReachedEnd(recorded_paths, ai_boats[a])

\* The step is the handler of c taking message m, which it drops: a parse
\* error or a missing key is logged, nothing is relayed, the loop goes on.
DropsMalformed(c, m) ==
    /\ m.kind # "flag_update"
    /\ ProcessMessage(connected_clients, c, m).out = "drop"
    /\ \E w \in BOOLEAN : Receive(c, m, w)

\* C25: a message dropped as malformed leaves the sender's registry entry
\* as it was: pose, flag and recording buffer, in either recording mode.
C25_DropLeavesEntry ==
    [][\A c \in Senders, m \in HubMessages :
          DropsMalformed(c, m) => connected_clients'[c] = connected_clients[c]]_vars

\* In recording mode a connection in its dispatch loop has a stored pose
\* without a position: the update that brought it was dropped.
C25_Witness ==
    /\ record_sessions
    /\ \E c \in Senders :
          /\ pc[c] = "recv"
          /\ connected_clients[c].boat_data = NoPosition
          /\ connected_clients[c].recording = <<>>

\* A boat that was removed does not come back: ids are not reused.
C26_RemovedForGood == \A x \in retired : x.id \notin DOMAIN ai_boats'

NamesBoat(t, type, a, b) ==
    /\ t.to = b
    /\ t.msg.type = type
    /\ t.msg.client_id = a

\* This step creates the send to b of a new message of this type naming a.
Issues(type, a, b) ==
    \E t \in tasks' : /\ NamesBoat(t, type, a, b)
                      /\ t.msg \notin {u.msg : u \in tasks}

\* The handler of a is in or past unregister.
LeftLoop(a) == pc[a] \in {"gather_unreg", "ended"}

C27_Step(a, b) ==
    /\ Issues("boat_disconnected", a, b)
          => LeftLoop(a)' /\ ~Issues("boat_update", a, b)
    /\ LeftLoop(a) => LeftLoop(a)' /\ ~Issues("boat_update", a, b)

\* C27: the step that sends b the boat_disconnected naming a sends b no
\* boat_update naming a and leaves the handler of a outside its dispatch
\* loop, where it stays and sends b no boat_update naming a; this whatever
\* took the handler out of its loop, a failed send of its last broadcast
\* included.
C27_NoUpdateAfterDisconnected ==
    [][\A a \in Clients : \A b \in Clients \ {a} : C27_Step(a, b)]_vars

\* A send of a's last boat_update failed for some recipient: the handler of
\* a is in unregister, and the send of that update to b, left behind by the
\* failed broadcast, is pending together with the boat_disconnected for b
\* created after it.
C27_Witness ==
    \E a \in Clients : \E b \in Clients \ {a} :
        /\ LeftLoop(a)
        /\ \E u \in tasks : NamesBoat(u, "boat_update", a, b) /\ ~u.awaited
        /\ \E t \in tasks : NamesBoat(t, "boat_disconnected", a, b)

(***************************************************************************)
(* C28.  The entry's flag is written by register (line 67) and by          *)
(* flag_update (line 589) only; the empty code stands for no flag, which   *)
(* is how line 79 reads it.                                                *)
(***************************************************************************)
Takes(c, kind) == \E m \in FlagMessages, w \in BOOLEAN : m.kind = kind /\ Receive(c, m, w)

TakesFlag(c, code) ==
    \E m \in FlagUpdates, w \in BOOLEAN : m.flag_code = code /\ Receive(c, m, w)

Stays(c) == connected_clients[c].present /\ connected_clients'[c].present

\* The flag of a client that stays registered changes only when the client
\* sends a flag_update, and then to the code sent.
C28_FlagKept(c) ==
    Stays(c) /\ connected_clients'[c].flag # connected_clients[c].flag
        => TakesFlag(c, connected_clients'[c].flag)

\* A boat_update replaces the stored boat_data and leaves the flag.
C28_UpdateKeepsFlag(c) ==
    \A bd \in FlagPoses :
        (\E w \in BOOLEAN : Receive(c, InMsg("boat_update", bd, ""), w)) /\ Stays(c)
            => /\ connected_clients'[c].boat_data = bd
               /\ connected_clients'[c].flag = connected_clients[c].flag

\* A flag_update of a client without boat_data stores the code and creates
\* no send.
C28_NoPoseNoBroadcast(c) ==
    \A code \in {"", "fr"} :
        TakesFlag(c, code) /\ ~Truthy(connected_clients[c].boat_data)
            => /\ connected_clients'[c].flag = code
               /\ tasks' = tasks

C28_Step ==
    \A c \in Clients :
        C28_FlagKept(c) /\ C28_UpdateKeepsFlag(c) /\ C28_NoPoseNoBroadcast(c)

\* Every client listed in an initial_boats message that has a flag is
\* listed with it.
C28_ListedWithFlag ==
    \A d \in Clients : \A c \in DOMAIN initial_boats[d] \cap Clients :
        connected_clients[c].flag # ""
            => initial_boats[d][c].flag = connected_clients[c].flag

\* C28: a flag set by flag_update stays in the entry until the client leaves
\* or sends another flag_update; a boat_update replaces the stored pose and
\* leaves the flag; an initial_boats message lists the client with that
\* flag; a flag_update of a client with no pose stores the flag and sends
\* nothing.
C28_FlagPersists == [](C28_ListedWithFlag) /\ [][C28_Step]_vars

\* A client set its flag, then sent a pose that carries another flag; a
\* client that registered afterwards is sent the pose with the flag set by
\* flag_update.
C28_Witness ==
    \E d \in Clients : \E c \in DOMAIN initial_boats[d] \cap Clients :
        /\ connected_clients[c].flag = "fr"
        /\ connected_clients[c].boat_data.flag = "de"
        /\ initial_boats[d][c].flag = "fr"
====
